---- MODULE Spec2Model ----
(***************************************************************************)
(* Simple Notes API (notes_backend/src/api/main.py): the notes table, the  *)
(* request validation of the two payload models, and the six handlers.     *)
(*                                                                         *)
(* Spec     : requests are handled one at a time, each handler atomically. *)
(* SpecConc : update and delete requests of several workers interleave at  *)
(*            the granularity of their SQL statements.                     *)
(*                                                                         *)
(* Time is the wall clock read by datetime.utcnow(), truncated to whole    *)
(* seconds; it is assumed not to run backwards.  A timestamp is stored as  *)
(* text (isoformat) and compared as text by the ORDER BY of list_notes.    *)
(* An Optional value is a sequence: <<>> is None, <<v>> is the value v.    *)
(***************************************************************************)
EXTENDS Integers, Sequences, FiniteSets, TLC

VARIABLES
    notes,    \* the notes table: id -> row (SpecConc and Spec)
    seq,      \* sqlite_sequence of the table: the largest id ever assigned
    clock,    \* the second last read from the wall clock (utcnow)
    mutated,  \* ids of the stored notes, in the order of their last commit
    pc,       \* SpecConc: the statement each worker is at
    req,      \* SpecConc: the request each worker handles
    loc,      \* SpecConc: each worker's local variables (new_title, ...)
    resp      \* SpecConc: each worker's response

vars == <<notes, seq, clock, mutated, pc, req, loc, resp>>

----------------------------------------------------------------------------
(* Bounds of the model *)

MaxNotes == 2     \* at most this many notes are ever created
StartClock == 9   \* second at which the service starts
MaxClock == 10    \* last second of the run
NumProcs == 2     \* concurrent workers of SpecConc

Elapsed == {0, 1}   \* seconds that may pass between two reads of the clock

(* Program constants *)

MIN_TITLE_LEN == 1
MAX_TITLE_LEN == 200

X10 == "xxxxxxxxxx"
X50 == X10 \o X10 \o X10 \o X10 \o X10
Title200 == X50 \o X50 \o X50 \o X50     \* the longest valid title
Title201 == Title200 \o "x"              \* one character too long

TitleInputs == {"", "a", Title200, Title201}
ContentInputs == {"", "c"}
OptTitles == {<<>>} \cup {<<t>> : t \in TitleInputs}
OptContents == {<<>>} \cup {<<c>> : c \in ContentInputs}
Payloads == [title : OptTitles, content : OptContents]
NoteIds == 1 .. (MaxNotes + 1)

----------------------------------------------------------------------------
(* Timestamps: datetime.isoformat, datetime.fromisoformat, text comparison *)

Digits(t) == <<t \div 10, t % 10>>

\* (variant: the seconds written without zero padding)
isoformat_unpadded(t) == IF t % 100 < 10 THEN <<t % 100>> ELSE Digits(t % 100)

\* now = datetime.utcnow().replace(microsecond=0).isoformat(): fixed width,
\* zero padded; only the two-digit seconds field varies in the model.
isoformat(t) == Digits(t % 100)

\* datetime.fromisoformat: the decimal value of the digits
RECURSIVE fromisoformat(_)
fromisoformat(s) ==
    IF s = <<>> THEN 0
    ELSE 10 * fromisoformat(SubSeq(s, 1, Len(s) - 1)) + s[Len(s)]

\* SQLite compares TEXT values bytewise, left to right.
RECURSIVE TextLess(_, _)
TextLess(a, b) ==
    IF b = <<>> THEN FALSE
    ELSE IF a = <<>> THEN TRUE
    ELSE IF a[1] # b[1] THEN a[1] < b[1]
    ELSE TextLess(Tail(a), Tail(b))

----------------------------------------------------------------------------
(* Pydantic models and their validation (FastAPI answers 422 on failure)   *)

TitleLenOk(t) == Len(t) >= MIN_TITLE_LEN /\ Len(t) <= MAX_TITLE_LEN

\* (variant: NoteCreate.title without max_length)
ValidNoteCreateNoMax(p) ==
    /\ p.title # <<>>
    /\ p.content # <<>>
    /\ Len(p.title[1]) >= MIN_TITLE_LEN

\* NoteCreate: title and content are required; title has 1..200 characters.
ValidNoteCreate(p) ==
    /\ p.title # <<>>
    /\ p.content # <<>>
    /\ TitleLenOk(p.title[1])

\* (variant: NoteUpdate.title a plain Optional[str], without length bounds)
ValidNoteUpdateUnbounded(p) == TRUE

\* NoteUpdate: both Optional; a title that is given has 1..200 characters.
ValidNoteUpdate(p) ==
    p.title # <<>> => TitleLenOk(p.title[1])

\* _row_to_note: the external Note, timestamps parsed back to datetimes.
row_to_note(row) ==
    [id |-> row.id,
     title |-> row.title,
     content |-> row.content,
     created_at |-> fromisoformat(row.created_at),
     updated_at |-> fromisoformat(row.updated_at)]

----------------------------------------------------------------------------
(* SQL statements on the notes table *)

\* INSERT INTO notes (title, content, created_at, updated_at) VALUES (?,?,?,?)
NewRow(id, title, content, now) ==
    [id |-> id, title |-> title, content |-> content,
     created_at |-> now, updated_at |-> now]

Insert(db, id, title, content, now) ==
    [i \in DOMAIN db \cup {id} |->
        IF i = id THEN NewRow(id, title, content, now) ELSE db[i]]

\* SELECT * FROM notes WHERE id = ? ; fetchone()
SelectById(db, id) == IF id \in DOMAIN db THEN <<db[id]>> ELSE <<>>

\* (variant: the UPDATE sets created_at where it should set updated_at)
UpdateRowTouchCreated(row, title, content, now) ==
    [row EXCEPT !.title = title, !.content = content, !.created_at = now]

\* UPDATE notes SET title = ?, content = ?, updated_at = ? WHERE id = ?
UpdateRow(row, title, content, now) ==
    [row EXCEPT !.title = title, !.content = content, !.updated_at = now]

Update(db, id, title, content, now) ==
    [i \in DOMAIN db |->
        IF i = id THEN UpdateRow(db[i], title, content, now) ELSE db[i]]

\* DELETE FROM notes WHERE id = ?
Delete(db, id) == [i \in DOMAIN db \ {id} |-> db[i]]

\* (variant: ORDER BY updated_at DESC alone, ties coming out in rowid order)
OrderBeforeIdAsc(r1, r2) ==
    \/ TextLess(r2.updated_at, r1.updated_at)
    \/ r1.updated_at = r2.updated_at /\ r1.id < r2.id

\* ORDER BY updated_at DESC, id DESC
OrderBefore(r1, r2) ==
    \/ TextLess(r2.updated_at, r1.updated_at)
    \/ r1.updated_at = r2.updated_at /\ r1.id > r2.id

RECURSIVE Ordered(_)
Ordered(rows) ==
    IF rows = {} THEN <<>>
    ELSE LET first == CHOOSE r \in rows :
                          \A o \in rows \ {r} : OrderBefore(r, o)
         IN  <<first>> \o Ordered(rows \ {first})

\* SELECT * FROM notes ORDER BY updated_at DESC, id DESC ; fetchall()
SelectAllOrdered(db) == Ordered({db[i] : i \in DOMAIN db})

----------------------------------------------------------------------------
(* Responses *)

Response(status, body, detail) ==
    [status |-> status, body |-> body, detail |-> detail]

NotFound == Response(404, <<>>, "Note not found")
NoFields == Response(400, <<>>, "No fields provided to update")
Unprocessable == Response(422, <<>>, "validation error")
ServerError == Response(500, <<>>, "Internal Server Error")

\* return _row_to_note(row): row is None raises TypeError, answered 500.
NoteResponse(status, rowopt) ==
    IF rowopt = <<>> THEN ServerError
    ELSE Response(status, <<row_to_note(rowopt[1])>>, "")

\* The effect of a handler: the table, its sequence, the commit order and
\* the response.
Outcome(db, sq, mut, r) == [notes |-> db, seq |-> sq, mutated |-> mut, resp |-> r]

Without(s, id) == SelectSeq(s, LAMBDA x : x # id)

----------------------------------------------------------------------------
(* Handlers.  now is the second read by datetime.utcnow() in the handler.  *)

\* GET / : health_check
health_check == Response(200, <<>>, "Healthy")

\* GET /notes : list_notes
list_notes(db) ==
    LET rows == SelectAllOrdered(db)
    IN  Response(200, [i \in 1 .. Len(rows) |-> row_to_note(rows[i])], "")

\* GET /notes/{note_id} : get_note
get_note(db, note_id) ==
    LET row == SelectById(db, note_id)
    IN  IF row = <<>> THEN NotFound ELSE NoteResponse(200, row)

\* (variant: the id taken from the number of rows)
NextIdByCount(db, sq) == Cardinality(DOMAIN db) + 1

\* id INTEGER PRIMARY KEY AUTOINCREMENT: one more than the largest id the
\* table has ever held, so the id of a deleted row is not given again.
NextId(db, sq) == sq + 1

\* create_note: INSERT, commit, lastrowid, re-read.
create_note(db, sq, mut, payload, now) ==
    LET note_id == NextId(db, sq)
        db2 == Insert(db, note_id, payload.title[1], payload.content[1],
                      isoformat(now))
    IN  Outcome(db2, note_id, Append(mut, note_id),
                NoteResponse(201, SelectById(db2, note_id)))

\* POST /notes : the body is validated as NoteCreate before create_note runs.
post_notes(db, sq, mut, payload, now) ==
    IF ~ValidNoteCreate(payload)
    THEN Outcome(db, sq, mut, Unprocessable)
    ELSE create_note(db, sq, mut, payload, now)

\* new_title = payload.title if payload.title is not None else row["title"]
new_title(payload, row) ==
    IF payload.title # <<>> THEN payload.title[1] ELSE row.title

\* (variant: a content that is not supplied is written as the empty string)
new_content_or_empty(payload, row) ==
    IF payload.content # <<>> THEN payload.content[1] ELSE ""

\* new_content = payload.content if payload.content is not None else row["content"]
new_content(payload, row) ==
    IF payload.content # <<>> THEN payload.content[1] ELSE row.content

\* if payload.title is None and payload.content is None: raise 400
NothingToUpdate(payload) == payload.title = <<>> /\ payload.content = <<>>

\* (variant: the row is looked up before the payload is checked)
update_note_lookup_first(db, sq, mut, note_id, payload, now) ==
    LET row == SelectById(db, note_id)
    IN  IF row = <<>> THEN Outcome(db, sq, mut, NotFound)
        ELSE IF NothingToUpdate(payload) THEN Outcome(db, sq, mut, NoFields)
        ELSE LET db2 == Update(db, note_id,
                               new_title(payload, row[1]),
                               new_content(payload, row[1]),
                               isoformat(now))
             IN  Outcome(db2, sq, Append(Without(mut, note_id), note_id),
                         NoteResponse(200, SelectById(db2, note_id)))

\* update_note: check the payload, read, merge, UPDATE, commit, re-read.
update_note(db, sq, mut, note_id, payload, now) ==
    IF NothingToUpdate(payload) THEN Outcome(db, sq, mut, NoFields)
    ELSE LET row == SelectById(db, note_id)
         IN  IF row = <<>> THEN Outcome(db, sq, mut, NotFound)
             ELSE LET db2 == Update(db, note_id,
                                    new_title(payload, row[1]),
                                    new_content(payload, row[1]),
                                    isoformat(now))
                  IN  Outcome(db2, sq, Append(Without(mut, note_id), note_id),
                              NoteResponse(200, SelectById(db2, note_id)))

\* PUT /notes/{note_id} : the body is validated as NoteUpdate first.
put_note(db, sq, mut, note_id, payload, now) ==
    IF ~ValidNoteUpdate(payload)
    THEN Outcome(db, sq, mut, Unprocessable)
    ELSE update_note(db, sq, mut, note_id, payload, now)

\* (variant: DELETE without the existence check)
delete_note_blind(db, sq, mut, note_id) ==
    Outcome(Delete(db, note_id), sq, Without(mut, note_id),
            Response(204, <<>>, ""))

\* DELETE /notes/{note_id} : delete_note
delete_note(db, sq, mut, note_id) ==
    IF SelectById(db, note_id) = <<>> THEN Outcome(db, sq, mut, NotFound)
    ELSE Outcome(Delete(db, note_id), sq, Without(mut, note_id),
                 Response(204, <<>>, ""))

----------------------------------------------------------------------------
(* Spec: one request at a time *)

NoPayload == [title |-> <<>>, content |-> <<>>]

Procs == 1 .. NumProcs
Idle == [p \in Procs |-> "idle"]
NoReq == [p \in Procs |-> [op |-> "none", note_id |-> 0, payload |-> NoPayload]]
NoLoc == [p \in Procs |-> [new_title |-> "", new_content |-> "", now |-> <<>>]]
NoResp == [p \in Procs |-> Response(0, <<>>, "")]

\* _on_startup / _init_db: CREATE TABLE IF NOT EXISTS notes
Init ==
    /\ notes = <<>>
    /\ seq = 0
    /\ clock = StartClock
    /\ mutated = <<>>
    /\ pc = Idle
    /\ req = NoReq
    /\ loc = NoLoc
    /\ resp = NoResp

ConcIdle == UNCHANGED <<pc, req, loc, resp>>

\* The clock is read only by a create or an update that gets as far as
\* datetime.utcnow(): one that is not rejected before.
ReadsClock(o) == o.resp.status \in {200, 201}

\* Seconds that have passed since the clock was last read.
Passed == {d \in Elapsed : clock + d <= MaxClock}

\* The handler's outcome o becomes the next state; its response leaves the
\* service.
Handler(o, d) ==
    /\ notes' = o.notes
    /\ seq' = o.seq
    /\ mutated' = o.mutated
    /\ clock' = clock + d
    /\ ConcIdle

HealthCheck ==
    /\ health_check.status = 200
    /\ UNCHANGED vars

ListNotes ==
    \E r \in {list_notes(notes)} :
        /\ r.status = 200
        /\ UNCHANGED vars

GetNote ==
    \E id \in NoteIds :
        \E r \in {get_note(notes, id)} :
            /\ r.status \in {200, 404}
            /\ UNCHANGED vars

CreateNote ==
    \E p \in Payloads :
        /\ ValidNoteCreate(p) => seq < MaxNotes
        /\ \E d \in Passed :
               \E o \in {post_notes(notes, seq, mutated, p, clock + d)} :
                   /\ ReadsClock(o) \/ d = 0
                   /\ Handler(o, d)

UpdateNote ==
    \E id \in NoteIds, p \in Payloads :
        \E d \in Passed :
            \E o \in {put_note(notes, seq, mutated, id, p, clock + d)} :
                /\ ReadsClock(o) \/ d = 0
                /\ Handler(o, d)

DeleteNote ==
    \E id \in NoteIds :
        \E o \in {delete_note(notes, seq, mutated, id)} :
            Handler(o, 0)

Next ==
    \/ HealthCheck
    \/ ListNotes
    \/ GetNote
    \/ CreateNote
    \/ UpdateNote
    \/ DeleteNote

Spec == Init /\ [][Next]_vars

----------------------------------------------------------------------------
(* SpecConc: update_note and delete_note run by concurrent workers, each on *)
(* a connection of its own; a step is one SQL statement with its commit.    *)
(* The requests overlap within one second: the clock stands still.          *)

FirstNote == [title |-> <<"a">>, content |-> <<"c">>]

\* the store after one note was created
ConcStart == create_note(<<>>, 0, <<>>, FirstNote, StartClock)

ConcPayloads ==
    {[title |-> <<"b">>, content |-> <<>>],
     [title |-> <<>>, content |-> <<"d">>]}

ConcRequests ==
    {[op |-> "update", note_id |-> 1, payload |-> p] : p \in ConcPayloads}
        \cup {[op |-> "delete", note_id |-> 1, payload |-> NoPayload]}

InitConc ==
    /\ notes = ConcStart.notes
    /\ seq = ConcStart.seq
    /\ mutated = ConcStart.mutated
    /\ clock = StartClock
    /\ pc = Idle
    /\ req = NoReq
    /\ loc = NoLoc
    /\ resp = NoResp

Finish(p, r) ==
    /\ resp' = [resp EXCEPT ![p] = r]
    /\ pc' = [pc EXCEPT ![p] = "done"]

\* The request reaches the worker; the body of a PUT is validated and
\* update_note checks that a field was given (no statement is issued yet).
Arrive(p) ==
    /\ pc[p] = "idle"
    /\ \E r \in ConcRequests :
           /\ req' = [req EXCEPT ![p] = r]
           /\ IF r.op = "delete"
              THEN pc' = [pc EXCEPT ![p] = "d_select"] /\ UNCHANGED resp
              ELSE IF ~ValidNoteUpdate(r.payload) THEN Finish(p, Unprocessable)
              ELSE IF NothingToUpdate(r.payload) THEN Finish(p, NoFields)
              ELSE pc' = [pc EXCEPT ![p] = "u_select"] /\ UNCHANGED resp
    /\ UNCHANGED <<notes, seq, clock, mutated, loc>>

\* update_note: SELECT * FROM notes WHERE id = ?; 404 or new_title,
\* new_content, now
UpdateSelect(p) ==
    /\ pc[p] = "u_select"
    /\ LET row == SelectById(notes, req[p].note_id)
       IN  IF row = <<>>
           THEN Finish(p, NotFound) /\ UNCHANGED loc
           ELSE /\ loc' = [loc EXCEPT ![p] =
                              [new_title |-> new_title(req[p].payload, row[1]),
                               new_content |-> new_content(req[p].payload, row[1]),
                               now |-> isoformat(clock)]]
                /\ pc' = [pc EXCEPT ![p] = "u_update"]
                /\ UNCHANGED resp
    /\ UNCHANGED <<notes, seq, clock, mutated, req>>

\* update_note: UPDATE notes SET ... WHERE id = ?; commit
UpdateWrite(p) ==
    /\ pc[p] = "u_update"
    /\ notes' = Update(notes, req[p].note_id, loc[p].new_title,
                       loc[p].new_content, loc[p].now)
    /\ mutated' = IF req[p].note_id \in DOMAIN notes
                  THEN Append(Without(mutated, req[p].note_id), req[p].note_id)
                  ELSE mutated
    /\ pc' = [pc EXCEPT ![p] = "u_reread"]
    /\ UNCHANGED <<seq, clock, req, loc, resp>>

\* update_note: SELECT * FROM notes WHERE id = ?; return _row_to_note(row2)
UpdateReread(p) ==
    /\ pc[p] = "u_reread"
    /\ Finish(p, NoteResponse(200, SelectById(notes, req[p].note_id)))
    /\ UNCHANGED <<notes, seq, clock, mutated, req, loc>>

\* delete_note: SELECT id FROM notes WHERE id = ?; 404 if there is no row
DeleteSelect(p) ==
    /\ pc[p] = "d_select"
    /\ IF SelectById(notes, req[p].note_id) = <<>>
       THEN Finish(p, NotFound)
       ELSE pc' = [pc EXCEPT ![p] = "d_delete"] /\ UNCHANGED resp
    /\ UNCHANGED <<notes, seq, clock, mutated, req, loc>>

\* delete_note: DELETE FROM notes WHERE id = ?; commit; 204
DeleteWrite(p) ==
    /\ pc[p] = "d_delete"
    /\ notes' = Delete(notes, req[p].note_id)
    /\ mutated' = Without(mutated, req[p].note_id)
    /\ Finish(p, Response(204, <<>>, ""))
    /\ UNCHANGED <<seq, clock, req, loc>>

NextConc ==
    \E p \in Procs :
        \/ Arrive(p)
        \/ UpdateSelect(p)
        \/ UpdateWrite(p)
        \/ UpdateReread(p)
        \/ DeleteSelect(p)
        \/ DeleteWrite(p)

SpecConc == InitConc /\ [][NextConc]_vars

(* Sequential executions of the same requests *)

Handle(o, r) ==
    IF r.op = "update"
    THEN put_note(o.notes, o.seq, o.mutated, r.note_id, r.payload, clock)
    ELSE delete_note(o.notes, o.seq, o.mutated, r.note_id)

RECURSIVE RunSerial(_, _, _)
RunSerial(order, o, rs) ==
    IF order = <<>> THEN [notes |-> o.notes, resp |-> rs]
    ELSE LET p == Head(order)
             o2 == Handle(o, req[p])
         IN  RunSerial(Tail(order), o2, [rs EXCEPT ![p] = o2.resp])

Orders ==
    {s \in [1 .. NumProcs -> Procs] : \A i, j \in 1 .. NumProcs : s[i] = s[j] => i = j}

AllDone == \A p \in Procs : pc[p] = "done"

\* C10: concurrent updateNote and deleteNote requests on a note are
\* serializable: once all have answered, the stored row and every response
\* are those of some sequential execution of the same requests.
C10_Serializable ==
    AllDone =>
        \E order \in Orders :
            RunSerial(order, ConcStart, NoResp) = [notes |-> notes, resp |-> resp]

----------------------------------------------------------------------------
(* Properties of the handlers, over every request in every reachable state *)

Stored == DOMAIN notes
ValidCreates == {p \in Payloads : ValidNoteCreate(p)}
\* update payloads that pass validation and carry at least one field
ValidUpdates == {p \in Payloads : ValidNoteUpdate(p) /\ ~NothingToUpdate(p)}
TitleOnlyEmpty == [title |-> <<"">>, content |-> <<>>]

\* position of the note with this id in a list of notes (0: not there)
Pos(body, id) ==
    IF \E k \in 1 .. Len(body) : body[k].id = id
    THEN CHOOSE k \in 1 .. Len(body) : body[k].id = id
    ELSE 0

\* C1: a createNote with a valid title answers 201 with a note that has the
\* title and content sent, created_at = updated_at and an id no stored note
\* has; a getNote on that id right afterwards answers the same note.
C1_CreateReadBack ==
    \A p \in ValidCreates, d \in Elapsed :
        \A o \in {post_notes(notes, seq, mutated, p, clock + d)} :
            /\ o.resp.status = 201
            /\ Len(o.resp.body) = 1
            /\ \A n \in {o.resp.body[1]}, g \in {get_note(o.notes, o.seq)} :
                   /\ n.title = p.title[1]
                   /\ n.content = p.content[1]
                   /\ n.created_at = n.updated_at
                   /\ n.created_at = clock + d
                   /\ n.id = o.seq
                   /\ n.id \notin Stored
                   /\ \A i \in Stored : notes[i].id # n.id
                   /\ \A i \in Stored : i \in DOMAIN o.notes /\ o.notes[i].id = i
                   /\ g.status = 200
                   /\ g.body = <<n>>

C1_Witness ==
    /\ Cardinality(Stored) >= 2
    /\ seq \in Stored
    /\ notes[seq].created_at = notes[seq].updated_at

\* C2: a successful updateNote keeps each field that was not supplied, sets
\* each field that was, keeps id and created_at, does not move updated_at
\* backwards, and changes no other note.
C2_UpdateFrame ==
    \A id \in NoteIds, p \in ValidUpdates, d \in Elapsed :
        \A o \in {put_note(notes, seq, mutated, id, p, clock + d)} :
            o.resp.status = 200 =>
                /\ id \in Stored
                /\ DOMAIN o.notes = Stored
                /\ o.seq = seq
                /\ \A old \in {row_to_note(notes[id])},
                      new \in {row_to_note(o.notes[id])} :
                       /\ o.resp.body = <<new>>
                       /\ p.title = <<>> => new.title = old.title
                       /\ p.title # <<>> => new.title = p.title[1]
                       /\ p.content = <<>> => new.content = old.content
                       /\ p.content # <<>> => new.content = p.content[1]
                       /\ new.id = old.id
                       /\ new.created_at = old.created_at
                       /\ new.updated_at >= old.updated_at
                       /\ new.updated_at = clock + d
                /\ \A j \in Stored \ {id} : o.notes[j] = notes[j]

C2_Witness ==
    /\ Cardinality(Stored) >= 2
    /\ \E i \in Stored :
           /\ fromisoformat(notes[i].updated_at) > fromisoformat(notes[i].created_at)
           /\ \E p \in ValidUpdates :
                  put_note(notes, seq, mutated, i, p, clock).resp.status = 200

\* C3: an updateNote with neither title nor content answers 400, whether or
\* not the id exists, and leaves every stored row unchanged.
C3_EmptyUpdateRejected ==
    \A id \in NoteIds, d \in Elapsed :
        \A o \in {put_note(notes, seq, mutated, id, NoPayload, clock + d)} :
            /\ o.resp.status = 400
            /\ o.notes = notes
            /\ o.seq = seq

C3_Witness ==
    /\ \E id \in Stored :
           put_note(notes, seq, mutated, id, NoPayload, clock).resp = NoFields
    /\ \E id \in NoteIds \ Stored :
           put_note(notes, seq, mutated, id, NoPayload, clock).resp = NoFields

C5_ListOrdered ==
    \A r \in {list_notes(notes)} :
        /\ r.status = 200
        /\ Len(r.body) = Cardinality(Stored)
        /\ \A i \in Stored :
               Cardinality({k \in 1 .. Len(r.body) :
                               r.body[k] = row_to_note(notes[i])}) = 1
        /\ \A k, l \in 1 .. Len(r.body) :
               k < l =>
                   \/ r.body[k].updated_at > r.body[l].updated_at
                   \/ /\ r.body[k].updated_at = r.body[l].updated_at
                      /\ r.body[k].id > r.body[l].id
        /\ Stored = {} => r.body = <<>>

C5_Witness ==
    \E i, j \in Stored :
        /\ i < j
        /\ fromisoformat(notes[i].updated_at) > fromisoformat(notes[j].updated_at)
        /\ Pos(list_notes(notes).body, i) < Pos(list_notes(notes).body, j)

\* C6 as stated: if A's last mutation completed before B's, listNotes returns
\* B before A.
C6_LaterMutationFirst ==
    \A body \in {list_notes(notes).body} :
        \A i, j \in 1 .. Len(mutated) :
            i < j => Pos(body, mutated[j]) < Pos(body, mutated[i])

\* C6 amended: if A's last mutation completed before B's, listNotes returns B
\* before A, unless both fell in the same second and A has the higher id:
\* then A comes first.
C6_LaterSecondFirst ==
    \A body \in {list_notes(notes).body} :
        \A i, j \in 1 .. Len(mutated) :
            i < j =>
                LET a == mutated[i]
                    b == mutated[j]
                IN  /\ Pos(body, a) > 0
                    /\ Pos(body, b) > 0
                    /\ IF notes[a].updated_at = notes[b].updated_at /\ a > b
                       THEN Pos(body, a) < Pos(body, b)
                       ELSE Pos(body, b) < Pos(body, a)

C6_Witness ==
    /\ Len(list_notes(notes).body) >= 2
    /\ \E i, j \in 1 .. Len(mutated) :
           /\ i < j
           /\ mutated[i] > mutated[j]
           /\ notes[mutated[i]].updated_at # notes[mutated[j]].updated_at

\* C7: every stored note has updated_at >= created_at.
C7_UpdatedNotBeforeCreated ==
    \A i \in Stored :
        fromisoformat(notes[i].updated_at) >= fromisoformat(notes[i].created_at)

C7_Witness ==
    /\ \E i \in Stored :
           fromisoformat(notes[i].updated_at) > fromisoformat(notes[i].created_at)
    /\ \E i \in Stored : notes[i].updated_at = notes[i].created_at

\* create payloads whose title is empty or longer than 200 characters
BadTitleCreates ==
    {p \in Payloads :
        p.title # <<>> /\ (Len(p.title[1]) = 0 \/ Len(p.title[1]) > MAX_TITLE_LEN)}

C9_EmptyTitleAccepted ==
    \A id \in Stored, d \in Elapsed :
        \A o \in {put_note(notes, seq, mutated, id, TitleOnlyEmpty, clock + d)} :
            /\ o.resp.status = 200
            /\ o.notes[id].title = ""

\* C9 amended: such an updateNote is rejected by the validation of the body
\* with 422, as a createNote with that title is, and the row is unchanged;
\* no stored note ever has an empty title.
C9_EmptyTitleRejected ==
    /\ \A id \in NoteIds, d \in Elapsed :
           \A o \in {put_note(notes, seq, mutated, id, TitleOnlyEmpty, clock + d)} :
               /\ o.resp.status = 422
               /\ o.notes = notes
    /\ \A i \in Stored : notes[i].title # ""

C9_Witness ==
    \E id \in Stored :
        /\ put_note(notes, seq, mutated, id, TitleOnlyEmpty, clock).resp = Unprocessable
        /\ notes[id].title # ""

====
